---- MODULE Spec2Model ----
(***************************************************************************)
(* Model of the quantum_stego package: the three SteganoMode placement     *)
(* strategies of modes.py (PSI, PHI, TAU) acting on a PIL image, the       *)
(* checksum header of utils.py, and the QuantumSteganography codec of      *)
(* core.py with its QuantumFeatures and QuantumMetadata.                   *)
(*                                                                         *)
(* An image is a record [mode, width, height, px]; px maps the raster      *)
(* index y*width + x to the tuple PIL's pixel access returns for (x, y):   *)
(* <<v>> for "L", <<r,g,b>> for "RGB", <<r,g,b,a>> for "RGBA".  A Python    *)
(* str is the sequence of its code points.                                 *)
(***************************************************************************)
EXTENDS Integers, Sequences, FiniteSets, TLC

VARIABLES img, pre, call, encOk, raised, decoded, chk,
          files, features, metadata, codec, hashes

vars == <<img, pre, call, encOk, raised, decoded, chk,
          files, features, metadata, codec, hashes>>

modeVars == <<img, pre, call, encOk, raised, decoded, chk>>
codecVars == <<files, features, metadata, codec, hashes>>

(***************************************************************************)
(* Program constants                                                       *)
(***************************************************************************)
\* format(ord(c), '08b'): minimum field width; byte = binary_data[i:i+8]
ByteBits == 8
\* if len(binary_data) >= 512: break
DecodeWindow == 512
\* channels are 8-bit: values 0..255
ChannelRange == 256

(***************************************************************************)
(* Bounds of the model                                                     *)
(***************************************************************************)
\* image contents are drawn from this many pseudo-random fillings
NumImageSeeds == 1
\* payload contents are drawn from this many fillings per length
NumPayloadSeeds == 1
\* number of QuantumSteganography.encode / .decode calls on one codec
MaxCodecCalls == 2
\* number of distinct salts os.urandom(8) is drawn from
NumSalts == 2
\* number of generate_pq_hash calls a caller makes in a row
MaxHashCalls == 2

Min(a, b) == IF a < b THEN a ELSE b

(***************************************************************************)
(* Bit operations on 8-bit channel values                                  *)
(***************************************************************************)
\* (v >> k) & 1
BitAt(v, k) == (v \div (2 ^ k)) % 2
\* (v & ~1) | bit
SetLsb(v, bit) == v - (v % 2) + bit
\* mutant of SetTauRed: the bit is OR-ed in unshifted, (r & ~0b11) | bit
SetTauRedUnshifted(r, bit) == r - (r % 4) + bit

\* (r & ~0b11) | (bit << 1)
SetTauRed(r, bit) == r - (r % 4) + 2 * bit

(***************************************************************************)
(* BitPacker: ''.join(format(ord(c), '08b') for c in data_hash)            *)
(***************************************************************************)
RECURSIVE BinDigits(_)
\* the binary digits of n, most significant first, no padding ("0" for 0)
BinDigits(n) == IF n < 2 THEN <<n>> ELSE Append(BinDigits(n \div 2), n % 2)

RECURSIVE Zeros(_)
Zeros(k) == IF k <= 0 THEN <<>> ELSE <<0>> \o Zeros(k - 1)

\* format(n, '08b'): zero-padded to AT LEAST 8 digits, longer when n >= 256
Format08b(n) == LET d == BinDigits(n) IN Zeros(ByteBits - Len(d)) \o d

RECURSIVE ToBits(_)
ToBits(s) == IF s = <<>> THEN <<>> ELSE Format08b(Head(s)) \o ToBits(Tail(s))

\* int(byte, 2) for the 8 bits starting at 1-based offset o of b
ByteValue(b, o) ==
    b[o] * 128 + b[o + 1] * 64 + b[o + 2] * 32 + b[o + 3] * 16
  + b[o + 4] * 8 + b[o + 5] * 4 + b[o + 6] * 2 + b[o + 7]

\* mutant of FromBits: the `if len(byte) == 8` test is missing, so a
\* trailing group of fewer than 8 bits becomes a character of its own
FromBitsKeepTail(b) ==
    LET padded == b \o Zeros((ByteBits - (Len(b) % ByteBits)) % ByteBits)
    IN  [j \in 1..(Len(padded) \div ByteBits) |-> ByteValue(padded, ByteBits * (j - 1) + 1)]

\* for i in range(0, len(b), 8): byte = b[i:i+8]; if len(byte) == 8: chr(...)
FromBits(b) == [j \in 1..(Len(b) \div ByteBits) |-> ByteValue(b, ByteBits * (j - 1) + 1)]

(***************************************************************************)
(* Images                                                                  *)
(***************************************************************************)
NumPixels(image) == image.width * image.height

\* pixels[x, y]: PIL raises IndexError outside the image
InBounds(image, xy) ==
    /\ 0 <= xy[1] /\ xy[1] < image.width
    /\ 0 <= xy[2] /\ xy[2] < image.height

\* raster index of (x, y)
Index(image, xy) == xy[2] * image.width + xy[1]

\* x, y = i % width, i // width
RasterXY(image, i) == <<i % image.width, i \div image.width>>

\* img.convert("RGBA"): a NEW image, opaque alpha, grey replicated to r,g,b
ConvertRGBA(image) ==
    [mode |-> "RGBA", width |-> image.width, height |-> image.height,
     px |-> [k \in DOMAIN image.px |->
               LET p == image.px[k] IN
               IF image.mode = "RGBA" THEN p
               ELSE IF image.mode = "RGB" THEN <<p[1], p[2], p[3], ChannelRange - 1>>
               ELSE <<p[1], p[1], p[1], ChannelRange - 1>>]]

(***************************************************************************)
(* SteganoMode encoders.  Each returns [ok, exc, img]: the boolean the     *)
(* method returns, whether an exception left the method, and the caller's  *)
(* image object after the call.  A loop is run as its iterations in order, *)
(* split in halves so that the evaluation stays shallow.                   *)
(***************************************************************************)
\* one iteration of _encode_psi's loop body at index i
\*   r, g, b, a = pixels[x, y]; a = (a & ~1) | int(bit); pixels[x, y] = (r, g, b, a)
psi_step(image, bits, i) ==
    LET k == Index(image, RasterXY(image, i))
        p == image.px[k]
    IN  IF Len(p) # 4 THEN [exc |-> TRUE, img |-> image]
        ELSE [exc |-> FALSE,
              img |-> [image EXCEPT !.px[k] = <<p[1], p[2], p[3], SetLsb(p[4], bits[i + 1])>>]]

RECURSIVE psi_loop(_, _, _, _)
\* iterations lo..hi-1 in order, stopping at the first exception
psi_loop(image, bits, lo, hi) ==
    IF lo >= hi THEN [exc |-> FALSE, img |-> image]
    ELSE IF hi = lo + 1 THEN psi_step(image, bits, lo)
    ELSE LET mid  == (lo + hi) \div 2
             head == psi_loop(image, bits, lo, mid)
         IN  IF head.exc THEN head ELSE psi_loop(head.img, bits, mid, hi)

encode_psi(image, data_hash) ==
    LET work == IF image.mode # "RGBA" THEN ConvertRGBA(image) ELSE image
        bits == ToBits(data_hash)
        \* enumerate(binary_data) with `if i >= width * height: break`
        r    == psi_loop(work, bits, 0, Min(Len(bits), NumPixels(work)))
    IN  [ok  |-> ~r.exc,
         exc |-> FALSE,
         \* the writes land in `work`; the caller sees them only when no
         \* conversion rebound the local name to a copy
         img |-> IF image.mode # "RGBA" THEN image ELSE r.img]

\* one iteration of _encode_phi's loop body: explicit positions, or raster
\*   r, g, b = pixels[x, y]; r = (r & ~1) | int(bit); pixels[x, y] = (r, g, b)
phi_step(image, bits, positions, i) ==
    LET xy == IF positions # <<>> THEN positions[i + 1] ELSE RasterXY(image, i) IN
    IF ~InBounds(image, xy) THEN [exc |-> TRUE, img |-> image]
    ELSE LET k == Index(image, xy)
             p == image.px[k]
         IN  IF Len(p) # 3 THEN [exc |-> TRUE, img |-> image]
             ELSE [exc |-> FALSE,
                   img |-> [image EXCEPT !.px[k] = <<SetLsb(p[1], bits[i + 1]), p[2], p[3]>>]]

RECURSIVE phi_loop(_, _, _, _, _)
phi_loop(image, bits, positions, lo, hi) ==
    IF lo >= hi THEN [exc |-> FALSE, img |-> image]
    ELSE IF hi = lo + 1 THEN phi_step(image, bits, positions, lo)
    ELSE LET mid  == (lo + hi) \div 2
             head == phi_loop(image, bits, positions, lo, mid)
         IN  IF head.exc THEN head ELSE phi_loop(head.img, bits, positions, mid, hi)

\* mutant of encode_phi: a failed call hands the image back as it was
encode_phi_atomic(image, data_hash, positions) ==
    LET bits == ToBits(data_hash)
        stop == IF positions # <<>> THEN Len(positions) ELSE NumPixels(image)
        r    == phi_loop(image, bits, positions, 0, Min(Len(bits), stop))
    IN  [ok |-> ~r.exc, exc |-> FALSE, img |-> IF r.exc THEN image ELSE r.img]

encode_phi(image, data_hash, positions) ==
    LET bits == ToBits(data_hash)
        \* `if positions:` then `if i >= len(positions): break`,
        \* else `if i >= width * height: break`
        stop == IF positions # <<>> THEN Len(positions) ELSE NumPixels(image)
        r    == phi_loop(image, bits, positions, 0, Min(Len(bits), stop))
    IN  [ok |-> ~r.exc, exc |-> FALSE, img |-> r.img]

\* one iteration of _encode_tau's loop body
\*   r = (r & ~0b11) | (int(bit) << 1); g = (g & ~0b1) | int(bit)
tau_step(image, bits, i) ==
    LET k == Index(image, RasterXY(image, i))
        p == image.px[k]
    IN  IF Len(p) # 3 THEN [exc |-> TRUE, img |-> image]
        ELSE [exc |-> FALSE,
              img |-> [image EXCEPT !.px[k] =
                         <<SetTauRed(p[1], bits[i + 1]), SetLsb(p[2], bits[i + 1]), p[3]>>]]

RECURSIVE tau_loop(_, _, _, _)
tau_loop(image, bits, lo, hi) ==
    IF lo >= hi THEN [exc |-> FALSE, img |-> image]
    ELSE IF hi = lo + 1 THEN tau_step(image, bits, lo)
    ELSE LET mid  == (lo + hi) \div 2
             head == tau_loop(image, bits, lo, mid)
         IN  IF head.exc THEN head ELSE tau_loop(head.img, bits, mid, hi)

encode_tau(image, data_hash) ==
    LET bits == ToBits(data_hash)
        r    == tau_loop(image, bits, 0, Min(Len(bits), NumPixels(image)))
    IN  [ok |-> ~r.exc, exc |-> FALSE, img |-> r.img]

\* SteganoMode.encode: dispatch on self
encode(mode, image, data_hash, positions) ==
    IF mode = "PSI" THEN encode_psi(image, data_hash)
    ELSE IF mode = "PHI" THEN encode_phi(image, data_hash, positions)
    ELSE encode_tau(image, data_hash)

(***************************************************************************)
(* SteganoMode decoders.  Each returns [exc, value]: whether an exception  *)
(* left the method, and the str it returned.                               *)
(***************************************************************************)
\* mutant of ReadBit: _decode_tau reads r & 1, as _decode_phi does
ReadBitTauLsb(mode, p) ==
    IF mode = "PSI" THEN (IF Len(p) # 4 THEN <<TRUE, 0>> ELSE <<FALSE, BitAt(p[4], 0)>>)
    ELSE (IF Len(p) # 3 THEN <<TRUE, 0>> ELSE <<FALSE, BitAt(p[1], 0)>>)

\* what one loop body reads from pixel p: <<failed, bit>>
\*   PSI  _, _, _, a = pixels[x, y]; a & 1
\*   PHI  r, _, _ = pixels[x, y]; r & 1
\*   TAU  r, _, _ = pixels[x, y]; (r >> 1) & 1
ReadBit(mode, p) ==
    IF mode = "PSI" THEN (IF Len(p) # 4 THEN <<TRUE, 0>> ELSE <<FALSE, BitAt(p[4], 0)>>)
    ELSE IF mode = "PHI" THEN (IF Len(p) # 3 THEN <<TRUE, 0>> ELSE <<FALSE, BitAt(p[1], 0)>>)
    ELSE (IF Len(p) # 3 THEN <<TRUE, 0>> ELSE <<FALSE, BitAt(p[1], 1)>>)

\* mutant of RowCount: the 512-bit break is missing, every pixel is read
RowCountNoBreak(image, have) == image.width

\* the inner loop over x reads until len(binary_data) >= 512, then breaks
RowCount(image, have) == Min(image.width, IF have >= DecodeWindow THEN 0 ELSE DecodeWindow - have)

RECURSIVE read_rows(_, _, _, _)
\* for y in range(height): for x in range(width): ...
read_rows(mode, image, y, acc) ==
    IF y >= image.height THEN [exc |-> FALSE, bits |-> acc]
    ELSE LET n   == RowCount(image, Len(acc))
             row == [x \in 1..n |-> ReadBit(mode, image.px[Index(image, <<x - 1, y>>)])]
         IN  IF \E x \in 1..n : row[x][1] THEN [exc |-> TRUE, bits |-> acc]
             ELSE read_rows(mode, image, y + 1, acc \o [x \in 1..n |-> row[x][2]])

\* mutant of decode_body: no try/except around the loops
decode_body_uncaught(mode, image) ==
    LET r == read_rows(mode, image, 0, <<>>)
    IN  [exc |-> r.exc, value |-> IF r.exc THEN <<>> ELSE FromBits(r.bits)]

\* try: read, regroup; except Exception: return ""
decode_body(mode, image) ==
    LET r == read_rows(mode, image, 0, <<>>)
    IN  [exc |-> FALSE, value |-> IF r.exc THEN <<>> ELSE FromBits(r.bits)]

decode_psi(image) ==
    IF image.mode # "RGBA" THEN [exc |-> FALSE, value |-> <<>>]
    ELSE decode_body("PSI", image)

decode_phi(image) == decode_body("PHI", image)

decode_tau(image) == decode_body("TAU", image)

\* SteganoMode.decode: dispatch on self
decode(mode, image) ==
    IF mode = "PSI" THEN decode_psi(image)
    ELSE IF mode = "PHI" THEN decode_phi(image)
    ELSE decode_tau(image)

(***************************************************************************)
(* Inputs                                                                  *)
(***************************************************************************)
Modes == {"PSI", "PHI", "TAU"}
PixelFormats == {"L", "RGB", "RGBA"}

\* the pixel format a mode's loops unpack
NativeFormat(mode) == IF mode = "PSI" THEN "RGBA" ELSE "RGB"

\* (width, height): 15 and 20 pixels (fewer than the payload's bits),
\* exactly 512, and 525 (more than the decode window)
ImageSizes == {<<5, 3>>, <<4, 5>>, <<32, 16>>, <<25, 21>>}

\* channel c of pixel k of filling s: every 8-bit value and every
\* combination of low bits occurs
Fill(s, k, c) ==
    ((((k + s) * (k + s + 1)) \div 2) * (2 * c + 3) + 11 * c + 64 * s) % ChannelRange

MakeImage(fmt, size, s) ==
    [mode |-> fmt, width |-> size[1], height |-> size[2],
     px |-> [k \in 0..(size[1] * size[2] - 1) |->
               IF fmt = "L" THEN <<Fill(s, k, 0)>>
               ELSE IF fmt = "RGB" THEN <<Fill(s, k, 0), Fill(s, k, 1), Fill(s, k, 2)>>
               ELSE <<Fill(s, k, 0), Fill(s, k, 1), Fill(s, k, 2), Fill(s, k, 3)>>]]

Images == {MakeImage(f, z, s) : f \in PixelFormats, z \in ImageSizes, s \in 1..NumImageSeeds}

\* a hex digit's code point, as hash_value.hex() produces
HexChar(d) == IF d < 10 THEN 48 + d ELSE 87 + d

\* character i of payload filling t: arbitrary bytes, above 127 included
PayloadChar(t, i) == (97 * t + 29 * i + (i * i) \div 3) % ChannelRange

\* payload lengths: empty, short, one under / at / over the 64 the decode
\* window holds
PayloadLengths == {0, 1, 3, 63, 64, 66}

\* a 64-character tag of hex digits, the shape generate_pq_hash returns
HexTag == [i \in 1..64 |-> HexChar((7 * i + (i * i) \div 5) % 16)]

\* a 64-character payload holding one code point above 255
WidePayload == [i \in 1..64 |-> IF i = 2 THEN 300 ELSE HexTag[i]]

Payloads ==
    {[i \in 1..n |-> PayloadChar(t, i)] : n \in PayloadLengths, t \in 1..NumPayloadSeeds}
    \cup {HexTag, WidePayload}

\* position lists for an image: None, the raster order reversed, a short
\* list of 10 coordinates walking down the diagonal, and that list with one
\* coordinate outside the image
ReversedRaster(image) ==
    [i \in 1..NumPixels(image) |-> RasterXY(image, NumPixels(image) - i)]

ShortList(image) ==
    [i \in 1..10 |-> <<(3 * i) % image.width, i % image.height>>]

\* the short list with its fourth coordinate one column right of the image
EdgeList(image) ==
    [i \in 1..10 |-> IF i = 4 THEN <<image.width, 0>> ELSE ShortList(image)[i]]

PositionLists(image) ==
    {<<>>, ReversedRaster(image), ShortList(image), EdgeList(image)}

(***************************************************************************)
(* QuantumFeatures and QuantumMetadata (quantum_features.py)               *)
(***************************************************************************)
\* QuantumFeatures.__init__(entropy_pool_size = 1024)
EntropyPoolSize == 1024

\* quantum_features.py uses hashlib.sha3_512 and never imports hashlib:
\* evaluating _hash_state raises NameError
hashlib_imported == FALSE

\* core.py calls generate_pq_hash and imports it from nowhere
\* (`from .exceptions import *` brings only the exception classes)
generate_pq_hash_imported == FALSE

\* get_quantum_entropy(size = 1): replenish by 1024 when the pool is
\* shorter than size, then drop `size` values from the front
get_quantum_entropy(pool) ==
    (IF pool < 1 THEN pool + EntropyPoolSize ELSE pool) - 1

\* get_superposition_state(data, num_states = 2): one draw per state
get_superposition_state(f) ==
    [f EXCEPT !.pool = get_quantum_entropy(get_quantum_entropy(f.pool))]

\* apply_quantum_transform(data): remembers the transformed array
apply_quantum_transform(f, state) == [f EXCEPT !.last = state]

\* QuantumMetadata.record_quantum_state(state): the dict literal is built
\* first, so a failing _hash_state leaves quantum_states as it was;
\* otherwise one state is appended, plus one transition when a previous
\* state exists.  Returns [exc, md].
record_quantum_state(md, state) ==
    IF ~hashlib_imported THEN [exc |-> TRUE, md |-> md]
    ELSE [exc |-> FALSE,
          md  |-> [states      |-> Append(md.states, state),
                   transitions |-> IF Len(md.states) + 1 > 1
                                   THEN md.transitions + 1 ELSE md.transitions]]

(***************************************************************************)
(* QuantumSteganography (core.py)                                          *)
(***************************************************************************)
\* CHAOS_INTENSITY = 0.6, in tenths
ChaosIntensityTenths == 6
\* phi = (1 + 5 ** 0.5) / 2 = 1.618034, in millionths
PhiMillionths == 1618034
Million == 10 ^ 6

\* _initialize_mode: chaos_factor = CHAOS_INTENSITY * phi % 1
initialize_mode ==
    LET chaos_factor == ((ChaosIntensityTenths * PhiMillionths) \div 10) % Million
    IN  IF 10 * chaos_factor > 8 * Million THEN "PSI"
        ELSE IF 10 * chaos_factor > 5 * Million THEN "PHI"
        ELSE "TAU"

\* FILE_TYPE_MAP keys, in dict order
FileTypeMap == <<"image/png", "text/plain", "audio/mpeg", "video/mp4">>

\* file_type arguments: the catalogued ones and the test's "test_content_type"
FileTypes == {FileTypeMap[i] : i \in 1..Len(FileTypeMap)} \cup {"test_content_type"}

\* generate_pq_hash(data, length = 64)
HashLength == 64

\* what the validators of genesis_engine may do: return True, return
\* False, or raise
Verdicts == {"pass", "reject", "raise"}

Paths == {"test_image.png", "invalid_path.png", "encrypted_image.png"}

NoFile == [exists |-> FALSE, image |-> MakeImage("L", <<1, 1>>, 0)]

\* Image.open(path).convert("RGB") of an 8-bit image file
ConvertRGB(image) ==
    [mode |-> "RGB", width |-> image.width, height |-> image.height,
     px |-> [k \in DOMAIN image.px |->
               LET p == image.px[k] IN
               IF image.mode = "L" THEN <<p[1], p[1], p[1]>> ELSE <<p[1], p[2], p[3]>>]]

\* Image.fromarray(np.uint8(transformed_data)): data * cos(2 pi phi data) in
\* floating point, then a narrowing cast whose result for negative values is
\* platform-defined; the outcome is an RGB image of the same size, drawn
\* from the model's fillings
TransformOutcomes(image) ==
    {MakeImage("RGB", <<image.width, image.height>>, s) : s \in 1..NumImageSeeds}

\* generate_pq_hash(data): 64 hex digits of a SHA3 chain over data and a
\* salt taken from os.urandom; distinct (data, salt) give distinct tags
generate_pq_hash(data, salt) ==
    LET d == CHOOSE i \in 1..(Len(FileTypeMap) + 1) :
                 IF i <= Len(FileTypeMap) THEN FileTypeMap[i] = data
                 ELSE \A j \in 1..Len(FileTypeMap) : FileTypeMap[j] # data
    IN  [i \in 1..HashLength |->
            HexChar((IF i = 1 THEN d ELSE IF i = 2 THEN salt ELSE 5 * i + d * salt) % 16)]

\* the except clauses of encode, of its ethical gate and of decode, by the
\* class each names
encode_handlers_typed == {"QuantumStateError", "PhiModulationError", "EntropyPoolError"}
encode_handlers ==
    {"QuantumStateError", "PhiModulationError", "EntropyPoolError", "Exception"}
gate_handlers == {"Exception"}
decode_handlers == {"QuantumStateError", "Exception"}

\* does a try statement with these handlers catch an exception of this class
catches(handlers, kind) == "Exception" \in handlers \/ kind \in handlers

\* "if ethical_check:" / "if validate_temporal and self.temporal_analyzer:":
\* what the validator does to the call when the gate is consulted
validate_gate_skipped(enabled, verdict) == "pass"
validate_gate(enabled, verdict) == IF enabled THEN verdict ELSE "pass"

\* QuantumSteganography.encode, from the ethical gate to the return.
\* verdict: what validate_content does; t: the transformed image;
\* salt: the hash salt.  Returns [result, exc, fs, f, md]; exc says that an
\* exception left the call.
codec_encode(fs, f, md, input_path, output_path, file_type, ethical_check, verdict, t, salt) ==
    LET fail(f1, md1) == [result |-> FALSE, exc |-> FALSE, fs |-> fs, f |-> f1, md |-> md1]
        throw(handlers, kind, f1, md1) ==
            [result |-> FALSE, exc |-> ~catches(handlers, kind),
             fs |-> fs, f |-> f1, md |-> md1]
        gate == validate_gate(ethical_check, verdict)
    IN
    IF gate = "raise" THEN throw(gate_handlers, "Exception", f, md)
    ELSE IF gate = "reject" THEN fail(f, md)
    ELSE IF ~fs[input_path].exists
         THEN throw(encode_handlers, "FileNotFoundError", f, md)
    ELSE
      LET f1 == apply_quantum_transform(f, <<"transform", input_path>>)
          f2 == get_superposition_state(f1)
          r1 == record_quantum_state(md, <<"superposition", input_path>>)
      IN
      IF r1.exc THEN throw(encode_handlers, "NameError", f2, md)
      ELSE IF ~generate_pq_hash_imported
           THEN throw(encode_handlers, "NameError", f2, r1.md)
      ELSE
        LET e == encode(initialize_mode, t, generate_pq_hash(file_type, salt), <<>>) IN
        IF ~e.ok THEN fail(f2, r1.md)
        ELSE LET r2 == record_quantum_state(r1.md, <<"transform", input_path>>) IN
             IF r2.exc THEN throw(encode_handlers, "NameError", f2, r1.md)
             ELSE [result |-> TRUE, exc |-> FALSE,
                   fs |-> [fs EXCEPT ![output_path] = [exists |-> TRUE, image |-> e.img]],
                   f |-> f2, md |-> r2.md]

\* QuantumSteganography.decode.  verdict: what validate_pattern does;
\* t: the transformed image; salts: the salt of each catalogue hash.
\* Returns [result, exc, f, md].
codec_decode(fs, f, md, image_path, validate_temporal, verdict, t, salts) ==
    LET unknown(f1, md1) == [result |-> "unknown", exc |-> FALSE, f |-> f1, md |-> md1]
        throw(kind, f1, md1) ==
            [result |-> "unknown", exc |-> ~catches(decode_handlers, kind),
             f |-> f1, md |-> md1]
        gate == validate_gate(validate_temporal, verdict)
    IN
    IF ~fs[image_path].exists THEN throw("FileNotFoundError", f, md)
    ELSE IF gate = "raise" THEN throw("Exception", f, md)
    ELSE IF gate = "reject" THEN throw("QuantumStateError", f, md)
    ELSE
      LET f1 == apply_quantum_transform(f, <<"inverse", image_path>>)
          r1 == record_quantum_state(md, <<"inverse", image_path>>)
      IN
      IF r1.exc THEN throw("NameError", f1, md)
      ELSE
        LET decoded_hash == decode(initialize_mode, t).value IN
        IF ~generate_pq_hash_imported THEN throw("NameError", f1, r1.md)
        ELSE
          LET hits == {i \in 1..Len(FileTypeMap) :
                          generate_pq_hash(FileTypeMap[i], salts[i]) = decoded_hash}
          IN  IF hits = {} THEN unknown(f1, r1.md)
              ELSE [result |-> FileTypeMap[CHOOSE i \in hits : \A j \in hits : i <= j],
                    exc |-> FALSE, f |-> f1, md |-> r1.md]

(***************************************************************************)
(* The checksum header (utils.py)                                          *)
(***************************************************************************)
\* x, y = i % 50, i // 50
HeaderWidth == 50
\* for i in range(8)
ChecksumBits == 8

Max(a, b) == IF a > b THEN a ELSE b

\* lines 76-81: the region <<x1, y1, x2, y2>> after the four clamps
clamp_region(image, region) ==
    LET x1 == Max(0, Min(region[1], image.width - 1))
        y1 == Max(0, Min(region[2], image.height - 1))
        x2 == Max(x1, Min(region[3], image.width))
        y2 == Max(y1, Min(region[4], image.height))
    IN  <<x1, y1, x2, y2>>

\* mutant of checksum_step: a plain byte sum, the factor phi left out
checksum_step_plain_sum(checksum, p) == (checksum + p[1] + p[2] + p[3]) % ChannelRange

\* checksum = int((checksum + r + g + b) * phi) % 256; the sum is at most
\* 1020, where the product with 1.618034 has the floor of the product with phi
checksum_step(checksum, p) ==
    (((checksum + p[1] + p[2] + p[3]) * PhiMillionths) \div Million) % ChannelRange

RECURSIVE pixel_loop(_, _, _, _, _)
\* for y in range(y, y2): r, g, b = img.getpixel((x, y)); checksum = ...
pixel_loop(image, x, y, y2, checksum) ==
    IF y >= y2 THEN [exc |-> FALSE, checksum |-> checksum]
    ELSE IF ~InBounds(image, <<x, y>>) THEN [exc |-> TRUE, checksum |-> checksum]
    ELSE LET p == image.px[Index(image, <<x, y>>)] IN
         IF Len(p) # 3 THEN [exc |-> TRUE, checksum |-> checksum]
         ELSE pixel_loop(image, x, y + 1, y2, checksum_step(checksum, p))

RECURSIVE column_loop(_, _, _, _, _, _)
\* for x in range(x, x2): for y in range(y1, y2): ...
column_loop(image, x, x2, y1, y2, checksum) ==
    IF x >= x2 THEN [exc |-> FALSE, checksum |-> checksum]
    ELSE LET col == pixel_loop(image, x, y1, y2, checksum) IN
         IF col.exc THEN col
         ELSE column_loop(image, x + 1, x2, y1, y2, col.checksum)

\* calculate_checksum(img, region): -1 when anything in the loops raised
calculate_checksum(image, region) ==
    LET c == clamp_region(image, region)
        r == column_loop(image, c[1], c[3], c[2], c[4], 0)
    IN  IF r.exc THEN -1 ELSE r.checksum

\* the coordinates the two range() loops of calculate_checksum visit
pixels_read(image, region) ==
    LET c == clamp_region(image, region)
    IN  {<<x, y>> : x \in c[1]..(c[3] - 1), y \in c[2]..(c[4] - 1)}

\* format(checksum, '08b') as its characters: 0 and 1 for the digits, -1 for
\* the sign character, which counts in the field width ('-0000001' for -1)
format_checksum(checksum) ==
    IF checksum >= 0 THEN Format08b(checksum)
    ELSE LET d == BinDigits(0 - checksum)
         IN  <<-1>> \o Zeros(ByteBits - 1 - Len(d)) \o d

\* one iteration of embed_checksum's loop body at index i
\*   x, y = i % 50, i // 50; r, g, b = pixels[x, y]
\*   r = (r & ~1) | int(bit); pixels[x, y] = (r, g, b)
embed_step(image, bits, i) ==
    LET xy == <<i % HeaderWidth, i \div HeaderWidth>> IN
    IF ~InBounds(image, xy) THEN [exc |-> TRUE, img |-> image]
    ELSE LET k == Index(image, xy)
             p == image.px[k]
         IN  IF Len(p) # 3 \/ bits[i + 1] < 0 THEN [exc |-> TRUE, img |-> image]
             ELSE [exc |-> FALSE,
                   img |-> [image EXCEPT !.px[k] = <<SetLsb(p[1], bits[i + 1]), p[2], p[3]>>]]

RECURSIVE embed_loop(_, _, _)
\* iterations i.. in order; the first exception ends the loop and the
\* writes made before it stay
embed_loop(image, bits, i) ==
    IF i >= Len(bits) THEN [exc |-> FALSE, img |-> image]
    ELSE LET s == embed_step(image, bits, i) IN
         IF s.exc THEN s ELSE embed_loop(s.img, bits, i + 1)

\* embed_checksum(img, checksum): `except Exception: pass`.  Returns
\* [exc, img]: whether an exception left the call, and the image after it.
embed_checksum(image, checksum) ==
    [exc |-> FALSE, img |-> embed_loop(image, format_checksum(checksum), 0).img]

\* mutant of extract_checksum: the bits are read least-significant first
extract_checksum_lsb_first(image) ==
    IF \E i \in 0..(ChecksumBits - 1) :
          \/ ~InBounds(image, <<i % HeaderWidth, i \div HeaderWidth>>)
          \/ Len(image.px[Index(image, <<i % HeaderWidth, i \div HeaderWidth>>)]) # 3
    THEN -1
    ELSE LET b == [j \in 1..ChecksumBits |->
                     image.px[Index(image, <<(ChecksumBits - j) % HeaderWidth,
                                             (ChecksumBits - j) \div HeaderWidth>>)][1] % 2]
         IN  ByteValue(b, 1)

\* extract_checksum(img): int of the red LSBs of header pixels 0..7, -1 when
\* a pixel access or the unpacking raised
extract_checksum(image) ==
    IF \E i \in 0..(ChecksumBits - 1) :
          \/ ~InBounds(image, <<i % HeaderWidth, i \div HeaderWidth>>)
          \/ Len(image.px[Index(image, <<i % HeaderWidth, i \div HeaderWidth>>)]) # 3
    THEN -1
    ELSE LET b == [j \in 1..ChecksumBits |->
                     image.px[Index(image, <<(j - 1) % HeaderWidth,
                                             (j - 1) \div HeaderWidth>>)][1] % 2]
         IN  ByteValue(b, 1)

\* QuantumSteganography.CHECKSUM_REGION
CHECKSUM_REGION == <<100, 100, 200, 200>>

\* region arguments: the codec's default, a block at the origin, a block
\* inside, one reaching over the right and bottom edges, one with negative
\* corners, one wholly left of and above the image, one with x2 < x1
Regions ==
    {CHECKSUM_REGION, <<0, 0, 5, 5>>, <<1, 1, 3, 3>>, <<3, 1, 9, 9>>,
     <<-2, -1, 2, 2>>, <<-5, -5, -1, -1>>, <<3, 2, 1, 1>>}

\* checksum arguments: the failure sentinel and four byte values
Checksums == {-1, 0, 77, 178, 255}

(***************************************************************************)
(* The caller: one image object, SteganoMode.encode and .decode on it      *)
(***************************************************************************)
NoEncode == [done |-> FALSE, mode |-> "PSI", data |-> <<>>, positions |-> <<>>]
NoDecode == [done |-> FALSE, mode |-> "PSI"]

\* no checksum call made yet.  op: the last checksum call since the image
\* was last written by encode; embedded, checksum, afterEncode: whether
\* embed_checksum was called, with which value, and whether encode had run
\* before it; value: what the last calculate or extract returned
NoChecksum ==
    [op |-> "none", region |-> <<0, 0, 0, 0>>, checksum |-> 0, embedded |-> FALSE,
     afterEncode |-> FALSE, value |-> 0, exc |-> FALSE]

NoCodecCall ==
    [op |-> "none", path |-> "test_image.png", output |-> "encrypted_image.png",
     file_type |-> "", gate |-> FALSE, verdict |-> "pass", result |-> "", exc |-> FALSE,
     calls |-> 0]

\* a fresh QuantumSteganography() beside the test's image file
InitCodecVars ==
    /\ files = [p \in Paths |->
                  IF p = "test_image.png"
                  THEN [exists |-> TRUE, image |-> MakeImage("L", <<5, 3>>, 1)]
                  ELSE NoFile]
    /\ features = [pool |-> EntropyPoolSize, last |-> <<>>]
    /\ metadata = [states |-> <<>>, transitions |-> 0]
    /\ codec = NoCodecCall
    /\ hashes = <<>>

Init ==
    /\ img \in Images
    /\ pre = img
    /\ call = [enc |-> NoEncode, dec |-> NoDecode]
    /\ encOk = FALSE
    /\ raised = FALSE
    /\ decoded = <<>>
    /\ chk = NoChecksum
    /\ InitCodecVars

\* ok = mode.encode(img, data_hash, positions); a behaviour follows one
\* image object through one encode call and the decode calls around it
Encode(m, data, pos) ==
    /\ ~call.enc.done
    /\ LET r == encode(m, img, data, pos) IN
        /\ img' = r.img
        /\ encOk' = r.ok
        /\ raised' = r.exc
    /\ pre' = img
    /\ call' = [enc |-> [done |-> TRUE, mode |-> m, data |-> data, positions |-> pos],
                dec |-> NoDecode]
    /\ decoded' = <<>>
    /\ chk' = [chk EXCEPT !.op = "none", !.value = 0]
    /\ UNCHANGED codecVars

\* s = mode.decode(img); decode only reads, so a second decode in a row
\* would reach nothing a single one does not
Decode(m) ==
    /\ ~call.dec.done
    /\ LET r == decode(m, img) IN
        /\ decoded' = r.value
        /\ raised' = r.exc
    /\ call' = [call EXCEPT !.dec = [done |-> TRUE, mode |-> m]]
    /\ UNCHANGED <<img, pre, encOk, chk>>
    /\ UNCHANGED codecVars

EncodeAny ==
    \E m \in Modes, data \in Payloads :
        \E pos \in (IF m = "PHI" THEN PositionLists(img) ELSE {<<>>}) :
            Encode(m, data, pos)

DecodeAny == \E m \in Modes : Decode(m)

Next == EncodeAny \/ DecodeAny

Spec == Init /\ [][Next]_vars

(***************************************************************************)
(* The caller of the checksum header: calculate_checksum on the image as   *)
(* created, embed_checksum and one 64-character mode.encode in either      *)
(* order, extract_checksum and mode.decode after them                      *)
(***************************************************************************)
\* c = calculate_checksum(img, region); it only reads
Calculate(region) ==
    /\ chk.op = "none" /\ ~chk.embedded
    /\ ~call.enc.done /\ ~call.dec.done
    /\ chk' = [chk EXCEPT !.op = "calculate", !.region = region,
                          !.value = calculate_checksum(img, region)]
    /\ UNCHANGED <<img, pre, call, encOk, raised, decoded>>
    /\ UNCHANGED codecVars

\* embed_checksum(img, checksum)
Embed(checksum) ==
    /\ ~chk.embedded /\ chk.op # "calculate"
    /\ LET r == embed_checksum(img, checksum) IN
         /\ img' = r.img
         /\ chk' = [chk EXCEPT !.op = "embed", !.checksum = checksum,
                               !.embedded = TRUE, !.afterEncode = call.enc.done,
                               !.value = 0, !.exc = r.exc]
    /\ pre' = img
    /\ call' = [call EXCEPT !.dec = NoDecode]
    /\ decoded' = <<>>
    /\ UNCHANGED <<encOk, raised>>
    /\ UNCHANGED codecVars

\* c = extract_checksum(img)
Extract ==
    /\ chk.op \notin {"calculate", "extract"}
    /\ chk' = [chk EXCEPT !.op = "extract", !.value = extract_checksum(img)]
    /\ UNCHANGED <<img, pre, call, encOk, raised, decoded>>
    /\ UNCHANGED codecVars

CalculateAny == \E region \in Regions : Calculate(region)

EmbedAny == \E checksum \in Checksums : Embed(checksum)

\* mode.encode(img, tag) of a 64-character tag, no position list
EncodeTag == chk.op # "calculate" /\ \E m \in Modes : Encode(m, HexTag, <<>>)

\* mode.decode(img) with the mode that encoded
DecodeTag == call.enc.done /\ Decode(call.enc.mode)

NextChecksum == CalculateAny \/ EmbedAny \/ Extract \/ EncodeTag \/ DecodeTag

SpecChecksum == Init /\ [][NextChecksum]_vars

(***************************************************************************)
(* The caller of the codec: one QuantumSteganography instance              *)
(***************************************************************************)
InitCodec ==
    /\ img = MakeImage("RGB", <<5, 3>>, 1)
    /\ pre = img
    /\ call = [enc |-> NoEncode, dec |-> NoDecode]
    /\ encOk = FALSE
    /\ raised = FALSE
    /\ decoded = <<>>
    /\ chk = NoChecksum
    /\ InitCodecVars

\* ok = stego.encode(input_path, output_path, file_type, ethical_check)
CodecEncode(input_path, output_path, file_type, ethical_check, verdict) ==
    /\ codec.calls < MaxCodecCalls
    /\ \E t \in TransformOutcomes(files[input_path].image), salt \in 1..NumSalts :
         LET r == codec_encode(files, features, metadata, input_path, output_path,
                               file_type, ethical_check, verdict, t, salt) IN
         /\ files' = r.fs
         /\ features' = r.f
         /\ metadata' = r.md
         /\ codec' = [op |-> "encode", path |-> input_path, output |-> output_path,
                      file_type |-> file_type, gate |-> ethical_check, verdict |-> verdict,
                      result |-> IF r.result THEN "True" ELSE "False", exc |-> r.exc,
                      calls |-> codec.calls + 1]
    /\ UNCHANGED hashes
    /\ UNCHANGED modeVars

\* file_type = stego.decode(image_path, validate_temporal)
CodecDecode(image_path, validate_temporal, verdict) ==
    /\ codec.calls < MaxCodecCalls
    /\ \E t \in TransformOutcomes(files[image_path].image),
          salts \in [1..Len(FileTypeMap) -> 1..NumSalts] :
         LET r == codec_decode(files, features, metadata, image_path,
                               validate_temporal, verdict, t, salts) IN
         /\ features' = r.f
         /\ metadata' = r.md
         /\ codec' = [op |-> "decode", path |-> image_path, output |-> codec.output,
                      file_type |-> codec.file_type, gate |-> validate_temporal,
                      verdict |-> verdict, result |-> r.result, exc |-> r.exc,
                      calls |-> codec.calls + 1]
    /\ UNCHANGED files
    /\ UNCHANGED hashes
    /\ UNCHANGED modeVars

\* metadata.record_quantum_state(test_array), called on the instance's
\* QuantumMetadata directly
RecordState ==
    /\ codec.calls < MaxCodecCalls
    /\ LET r == record_quantum_state(metadata, <<"test_array">>) IN
         /\ metadata' = r.md
         /\ codec' = [codec EXCEPT !.op = "record", !.gate = FALSE, !.result = "",
                                   !.exc = r.exc, !.calls = codec.calls + 1]
    /\ UNCHANGED <<files, features>>
    /\ UNCHANGED hashes
    /\ UNCHANGED modeVars

CodecEncodeAny ==
    \E input_path \in {"test_image.png", "invalid_path.png"}, file_type \in FileTypes,
       ethical_check \in BOOLEAN, verdict \in Verdicts :
        CodecEncode(input_path, "encrypted_image.png", file_type, ethical_check, verdict)

CodecDecodeAny ==
    \E image_path \in Paths, validate_temporal \in BOOLEAN, verdict \in Verdicts :
        CodecDecode(image_path, validate_temporal, verdict)

NextCodec == CodecEncodeAny \/ CodecDecodeAny \/ RecordState

SpecCodec == InitCodec /\ [][NextCodec]_vars

(***************************************************************************)
(* The caller of generate_pq_hash: the calls encode and decode would make  *)
(* for a file type, one after the other                                    *)
(***************************************************************************)
\* tag = generate_pq_hash(data); each call draws its own salt from
\* os.urandom(8)
HashCall(data) ==
    /\ Len(hashes) < MaxHashCalls
    /\ \E salt \in 1..NumSalts :
         hashes' = Append(hashes, [data |-> data, tag |-> generate_pq_hash(data, salt)])
    /\ UNCHANGED <<files, features, metadata, codec>>
    /\ UNCHANGED modeVars

NextHash == \E data \in FileTypes : HashCall(data)

SpecHash == InitCodec /\ [][NextHash]_vars

(***************************************************************************)
(* Vocabulary of the properties                                            *)
(***************************************************************************)
\* the last encode call and the bit string it packed
EncMode == call.enc.mode
EncData == call.enc.data
EncBits == ToBits(call.enc.data)

\* number of characters the decode window holds
WindowChars == DecodeWindow \div ByteBits

\* a Python str of single-byte code points
IsByteString(s) == \A j \in 1..Len(s) : s[j] \in 0..(ChannelRange - 1)

\* the Payload of the data model: a byte string of at most 64 bytes
IsPayload(s) == IsByteString(s) /\ Len(s) <= WindowChars

\* the i-th placement target (0-based) of the last encode call
TargetXY(i) ==
    IF EncMode = "PHI" /\ call.enc.positions # <<>> THEN call.enc.positions[i + 1]
    ELSE RasterXY(pre, i)

\* how many placement targets the last encode call had
NumTargets ==
    IF EncMode = "PHI" /\ call.enc.positions # <<>> THEN Len(call.enc.positions)
    ELSE NumPixels(pre)

\* the bit mode `m` keeps its payload in, read from pixel p; -1 when p has
\* no such channel
StoredBit(m, p) ==
    IF m = "PSI" THEN (IF Len(p) = 4 THEN BitAt(p[4], 0) ELSE -1)
    ELSE IF m = "PHI" THEN (IF Len(p) >= 3 THEN BitAt(p[1], 0) ELSE -1)
    ELSE (IF Len(p) >= 3 THEN BitAt(p[1], 1) ELSE -1)

\* the last encode call ran on an image of its mode's own format, in raster order
NativeRaster ==
    /\ call.enc.done
    /\ pre.mode = NativeFormat(EncMode)
    /\ call.enc.positions = <<>>

\* a decode with the encoding mode has followed the last encode call
DecodedSameMode == call.enc.done /\ call.dec.done /\ call.dec.mode = EncMode

(***************************************************************************)
(* C1: on an image already in the mode's pixel format with at least 512    *)
(* pixels, encode of a 64-character payload of code points below 256       *)
(* returns True, and decode with the same mode then returns the payload.   *)
(***************************************************************************)
C1_RoundTrip64 ==
    (/\ NativeRaster
     /\ NumPixels(pre) >= DecodeWindow
     /\ Len(EncData) = WindowChars
     /\ IsByteString(EncData))
    => /\ encOk
       /\ DecodedSameMode => decoded = EncData

C1_Witness ==
    /\ NativeRaster /\ DecodedSameMode /\ encOk
    /\ NumPixels(pre) >= DecodeWindow
    /\ Len(EncData) = WindowChars /\ IsByteString(EncData)
    /\ EncMode = "TAU"
    /\ decoded = EncData
    /\ img # pre

(***************************************************************************)
(* C2 as stated: for any payload of at most 64 bytes and any single mode,  *)
(* decode of the encoded image equals the payload whenever the image has   *)
(* at least 512 pixels (here already on images in the mode's own format).  *)
(***************************************************************************)
C2_RoundTripAnyLength ==
    (/\ NativeRaster /\ DecodedSameMode
     /\ NumPixels(pre) >= DecodeWindow
     /\ IsPayload(EncData))
    => decoded = EncData

(***************************************************************************)
(* C2 amended: under the same conditions decode returns a string of        *)
(* exactly 64 characters whose first len(payload) characters are the       *)
(* payload; the characters after them are what the image held before.      *)
(***************************************************************************)
C2_PayloadIsPrefix ==
    (/\ NativeRaster /\ DecodedSameMode
     /\ NumPixels(pre) >= DecodeWindow
     /\ IsPayload(EncData))
    => /\ Len(decoded) = WindowChars
       /\ SubSeq(decoded, 1, Len(EncData)) = EncData
       /\ SubSeq(decoded, Len(EncData) + 1, WindowChars)
            = SubSeq(decode(EncMode, pre).value, Len(EncData) + 1, WindowChars)

C2_Witness ==
    /\ NativeRaster /\ DecodedSameMode
    /\ NumPixels(pre) > DecodeWindow
    /\ IsPayload(EncData)
    /\ Len(EncData) = 3
    /\ Len(decoded) = WindowChars
    /\ decoded # EncData

(***************************************************************************)
(* C3: whenever encode returns True, payload bit i is stored at the i-th   *)
(* placement target of the image object the caller passed in, for every    *)
(* mode and every input pixel format.                                      *)
(***************************************************************************)
C3_WrittenInPlace ==
    (call.enc.done /\ encOk)
    => LET bits == EncBits IN
       \A i \in 0..(Min(Min(ByteBits * Len(EncData), NumPixels(pre)), NumTargets) - 1) :
          StoredBit(EncMode, img.px[Index(img, TargetXY(i))]) = bits[i + 1]

(***************************************************************************)
(* C4: in every pixel, encode changes no bit of any channel other than     *)
(* the mapped ones: bit 0 of A for PSI, bit 0 of R for PHI, bit 1 of R     *)
(* and bit 0 of G for TAU.                                                 *)
(***************************************************************************)
\* the bit positions of channel c (1 = R .. 4 = A) that mode m maps
MappedBits(m, c) ==
    IF m = "PSI" THEN (IF c = 4 THEN {0} ELSE {})
    ELSE IF m = "PHI" THEN (IF c = 1 THEN {0} ELSE {})
    ELSE (IF c = 1 THEN {1} ELSE IF c = 2 THEN {0} ELSE {})

C4_OnlyMappedBitsChange ==
    call.enc.done
    => \A k \in DOMAIN pre.px : \A c \in 1..Len(pre.px[k]) :
          \A b \in (0..(ByteBits - 1)) \ MappedBits(EncMode, c) :
             BitAt(img.px[k][c], b) = BitAt(pre.px[k][c], b)

(***************************************************************************)
(* C5: after a TAU encode that returns True on an RGB image, for every     *)
(* i < min(8*len(payload), width*height) the pixel at (i mod width,        *)
(* i div width) carries payload bit i both in bit 1 of R and in bit 0 of G.*)
(***************************************************************************)
C5_TauSameBitTwice ==
    (call.enc.done /\ EncMode = "TAU" /\ encOk /\ pre.mode = "RGB")
    => LET bits == EncBits IN
       \A i \in 0..(Min(ByteBits * Len(EncData), NumPixels(pre)) - 1) :
          LET p == img.px[Index(img, RasterXY(img, i))] IN
          /\ BitAt(p[1], 1) = bits[i + 1]
          /\ BitAt(p[2], 0) = bits[i + 1]

C5_Witness ==
    /\ call.enc.done /\ EncMode = "TAU" /\ encOk /\ pre.mode = "RGB"
    /\ Len(EncData) = WindowChars
    /\ LET bits == EncBits IN
       \E i \in 0..(Min(ByteBits * Len(EncData), NumPixels(pre)) - 1) :
          /\ bits[i + 1] = 1
          /\ BitAt(pre.px[i][1], 1) = 0
          /\ BitAt(pre.px[i][2], 0) = 0
          /\ BitAt(img.px[i][1], 1) = 1
          /\ BitAt(img.px[i][2], 0) = 1

DistinctInBounds(positions) ==
    /\ \A i \in 1..Len(positions) : InBounds(pre, positions[i])
    /\ Cardinality({Index(pre, positions[i]) : i \in 1..Len(positions)}) = Len(positions)

C7_PositionListRoundTrip ==
    (/\ call.enc.done /\ EncMode = "PHI" /\ pre.mode = "RGB"
     /\ Len(call.enc.positions) >= DecodeWindow
     /\ DistinctInBounds(call.enc.positions)
     /\ Len(EncData) = WindowChars /\ IsByteString(EncData)
     /\ DecodedSameMode)
    => decoded = EncData

\* the half of C7 about encode alone: bit i is in the red LSB of positions[i]
C7_BitsAtListedPositions ==
    (/\ call.enc.done /\ EncMode = "PHI" /\ pre.mode = "RGB"
     /\ call.enc.positions # <<>>
     /\ DistinctInBounds(call.enc.positions))
    => LET bits == EncBits IN
       /\ encOk
       /\ \A i \in 0..(Min(Len(bits), Len(call.enc.positions)) - 1) :
             BitAt(img.px[Index(img, call.enc.positions[i + 1])][1], 0) = bits[i + 1]

(***************************************************************************)
(* C8: for each of the three modes, encode of a short payload returns      *)
(* True on an image of any pixel format (grayscale, RGB or RGBA) that has  *)
(* enough pixels for the payload.                                          *)
(***************************************************************************)
C8_EncodeAnyFormat ==
    (/\ call.enc.done
     /\ call.enc.positions = <<>>
     /\ IsPayload(EncData)
     /\ ByteBits * Len(EncData) <= NumPixels(pre))
    => encOk

(***************************************************************************)
(* C9: mode isolation.  For every ordered pair of distinct modes A and B   *)
(* and every pixel format, encoding with A and then decoding the same      *)
(* image with B raises nothing and returns a string.                       *)
(***************************************************************************)
C9_ModeIsolation ==
    (call.enc.done /\ call.dec.done /\ call.dec.mode # EncMode)
    => /\ ~raised
       /\ IsByteString(decoded)
       /\ Len(decoded) <= WindowChars

C9_Witness ==
    /\ call.enc.done /\ call.dec.done
    /\ EncMode = "PSI" /\ call.dec.mode = "TAU"
    /\ img.mode = "RGBA" /\ encOk
    /\ ~raised
    /\ decoded = <<>>

\* the other face of C9: decoding with the wrong mode yields 64 characters
\* that are not the payload
C9_WitnessGarbage ==
    /\ call.enc.done /\ call.dec.done
    /\ EncMode = "TAU" /\ call.dec.mode = "PHI"
    /\ img.mode = "RGB" /\ encOk
    /\ Len(EncData) = WindowChars
    /\ Len(decoded) = WindowChars
    /\ decoded # EncData

(***************************************************************************)
(* C10: end-to-end codec round trip.  For a readable input image (the      *)
(* content validator passing) and any file_type, QuantumSteganography      *)
(* .encode returns True and writes the output file, and .decode of that    *)
(* output on the same codec then returns the file_type.                    *)
(***************************************************************************)
C10_CodecRoundTrip ==
    /\ (/\ codec.op = "encode"
        /\ files[codec.path].exists
        /\ codec.gate => codec.verdict = "pass")
       => /\ codec.result = "True"
          /\ files[codec.output].exists
    /\ (/\ codec.op = "decode"
        /\ codec.file_type # ""
        /\ codec.path = codec.output
        /\ codec.gate => codec.verdict = "pass")
       => codec.result = codec.file_type

C12_InvalidPathRaises ==
    (/\ codec.op = "encode"
     /\ ~files[codec.path].exists
     /\ codec.gate => codec.verdict = "pass")
    => codec.exc

(***************************************************************************)
(* C13: validation gates abort with no side effects.  A call whose gate    *)
(* is on and whose validator returns False returns False (encode) or       *)
(* "unknown" (decode) and leaves the output file, the metadata history,    *)
(* the entropy pool and last_quantum_state as they were before the call.   *)
(***************************************************************************)
C13_GateAbortsWithoutEffects ==
    [][(/\ codec'.calls = codec.calls + 1
        /\ codec'.gate
        /\ codec'.verdict = "reject")
       => /\ UNCHANGED <<files, features, metadata>>
          /\ codec'.result = (IF codec'.op = "encode" THEN "False" ELSE "unknown")]_vars

\* a rejected decode of a readable file on a codec whose earlier call had
\* drawn entropy and set last_quantum_state
C13_Witness ==
    /\ codec.calls = 2
    /\ codec.op = "decode" /\ codec.gate /\ codec.verdict = "reject"
    /\ files[codec.path].exists
    /\ codec.result = "unknown"
    /\ features.pool < EntropyPoolSize
    /\ features.last # <<>>

(***************************************************************************)
(* C18: the metadata history is append-only and consistent.  Every         *)
(* record_quantum_state call adds exactly one entry to the state history,  *)
(* so the history is non-empty once a call was made, and the number of     *)
(* recorded transitions is max(0, number of recorded states - 1).          *)
(***************************************************************************)
C18_HistoryAppendOnly ==
    /\ codec.op = "record" => /\ ~codec.exc
                              /\ Len(metadata.states) >= 1
    /\ metadata.transitions =
          (IF Len(metadata.states) = 0 THEN 0 ELSE Len(metadata.states) - 1)

(***************************************************************************)
(* Vocabulary of the checksum properties                                   *)
(***************************************************************************)
\* the pixels of the half-open rectangle c = <<x1, y1, x2, y2>>, row by row
\* (y increasing, x increasing within a row)
RowMajor(c) ==
    LET nx == c[3] - c[1]
        ny == c[4] - c[2]
    IN  [i \in 1..(nx * ny) |-> <<c[1] + ((i - 1) % nx), c[2] + ((i - 1) \div nx)>>]

\* the same pixels column by column (x increasing, y increasing within a
\* column)
ColumnMajor(c) ==
    LET nx == c[3] - c[1]
        ny == c[4] - c[2]
    IN  [i \in 1..(nx * ny) |-> <<c[1] + ((i - 1) \div ny), c[2] + ((i - 1) % ny)>>]

RECURSIVE FoldFrom(_, _, _, _, _)
\* c := floor((c + r + g + b) * phi) mod 256 over pixels lo+1..hi of order,
\* in order, started at c
FoldFrom(image, order, lo, hi, c) ==
    IF lo >= hi THEN c
    ELSE IF hi = lo + 1
    THEN LET p == image.px[Index(image, order[hi])]
         IN  (((c + p[1] + p[2] + p[3]) * PhiMillionths) \div Million) % 256
    ELSE LET mid  == (lo + hi) \div 2
             left == FoldFrom(image, order, lo, mid, c)
         IN  IF left >= 0 THEN FoldFrom(image, order, mid, hi, left) ELSE left

\* the left fold over the first n pixels of order, started at 0
LeftFold(image, order, n) == FoldFrom(image, order, 0, n, 0)

\* the last write to the image was embed_checksum
EmbedWasLast == chk.embedded /\ (call.enc.done => chk.afterEncode)

\* bit i (0-based, most significant first) of the 8-bit checksum c
ChecksumBit(c, i) == (c \div (2 ^ (7 - i))) % 2

(***************************************************************************)
(* C14 as stated: calculate_checksum on an RGB image is the left fold      *)
(* c := floor((c + r + g + b) * phi) mod 256 from 0 over the pixels of the *)
(* clamped region in row-major order, and lies in 0..255.                  *)
(***************************************************************************)
C14_RowMajorFold ==
    (chk.op = "calculate" /\ img.mode = "RGB")
    => LET order == RowMajor(clamp_region(img, chk.region)) IN
       /\ chk.value = LeftFold(img, order, Len(order))
       /\ chk.value \in 0..255

(***************************************************************************)
(* C14 amended: the fold runs over the pixels of the clamped region in     *)
(* column-major order (columns in increasing x, y increasing within a      *)
(* column); the result lies in 0..255.                                     *)
(***************************************************************************)
C14_ColumnMajorFold ==
    (chk.op = "calculate" /\ img.mode = "RGB")
    => LET order == ColumnMajor(clamp_region(img, chk.region)) IN
       /\ chk.value = LeftFold(img, order, Len(order))
       /\ chk.value \in 0..255

\* a checksum of a region of several rows and columns on which the two
\* orders give different values
C14_Witness ==
    /\ chk.op = "calculate" /\ img.mode = "RGB"
    /\ LET c == clamp_region(img, chk.region) IN
       /\ c[3] - c[1] >= 2 /\ c[4] - c[2] >= 2
       /\ chk.value # LeftFold(img, RowMajor(c), Len(RowMajor(c)))
       /\ chk.value = LeftFold(img, ColumnMajor(c), Len(ColumnMajor(c)))

(***************************************************************************)
(* C15: bounds clamp.  For every region, calculate_checksum raises no      *)
(* index error and reads only pixels that lie inside the image and inside  *)
(* the requested rectangle [x1,x2) x [y1,y2); a region that does not       *)
(* overlap the image contributes no pixel.                                 *)
(***************************************************************************)
C15_ReadsInsideRequest ==
    chk.op = "calculate"
    => LET reads == pixels_read(img, chk.region)
           x1 == chk.region[1]
           y1 == chk.region[2]
           x2 == chk.region[3]
           y2 == chk.region[4]
           overlap == {xy \in (0..(img.width - 1)) \X (0..(img.height - 1)) :
                          /\ x1 <= xy[1] /\ xy[1] < x2
                          /\ y1 <= xy[2] /\ xy[2] < y2}
       IN  /\ ~chk.exc
           /\ \A xy \in reads : InBounds(img, xy) /\ xy \in overlap
           /\ overlap = {} => reads = {}

(***************************************************************************)
(* C16: checksum embed/extract round trip.  On an RGB image at least 8     *)
(* pixels wide, for a checksum c in 0..255, extract_checksum after         *)
(* embed_checksum(img, c) returns c, and the 8 bits sit most significant   *)
(* first in the red LSB of the pixels (i mod 50, i div 50), i = 0..7.      *)
(***************************************************************************)
C16_EmbedExtractRoundTrip ==
    (/\ chk.op = "extract" /\ EmbedWasLast
     /\ img.mode = "RGB" /\ img.width >= 8
     /\ chk.checksum \in 0..255)
    => /\ chk.value = chk.checksum
       /\ \A i \in 0..7 :
            img.px[Index(img, <<i % 50, i \div 50>>)][1] % 2 = ChecksumBit(chk.checksum, i)

\* an embed that changed header pixels, read back
C16_Witness ==
    /\ chk.op = "extract" /\ EmbedWasLast
    /\ img.mode = "RGB" /\ img.width >= 8
    /\ chk.checksum = 178 /\ chk.value = 178
    /\ img # pre

(***************************************************************************)
(* C17: embed_checksum is a silent no-op on failure.  When it cannot write *)
(* all checksum bits (image narrower than 8 pixels, format other than RGB, *)
(* or the -1 sentinel as checksum) it raises nothing and leaves every      *)
(* pixel as it was before the call.                                        *)
(***************************************************************************)
C17_FailedEmbedIsNoOp ==
    (/\ chk.op = "embed"
     /\ \/ pre.width < 8
        \/ pre.mode # "RGB"
        \/ chk.checksum = -1)
    => /\ ~chk.exc
       /\ img = pre

(***************************************************************************)
(* C19: the checksum header and the payload do not interfere.  For every   *)
(* mode, on an image of at least 512 pixels in the mode's pixel format,    *)
(* after embed_checksum(c) and mode.encode(payload) in either order,       *)
(* extract_checksum returns c and mode.decode returns the payload.         *)
(***************************************************************************)
C19_HeaderAndPayloadIndependent ==
    (/\ chk.embedded /\ chk.checksum \in 0..255
     /\ call.enc.done
     /\ img.mode = NativeFormat(EncMode) /\ NumPixels(img) >= DecodeWindow
     /\ chk.op = "extract"
     /\ DecodedSameMode)
    => /\ chk.value = chk.checksum
       /\ decoded = EncData

StepSucceeds(i) ==
    /\ InBounds(pre, TargetXY(i))
    /\ Len(pre.px[Index(pre, TargetXY(i))]) = (IF EncMode = "PSI" THEN 4 ELSE 3)

\* the number of steps the last encode call completed before the failing one
StepsBeforeFailure ==
    LET n == Min(Len(EncBits), NumTargets)
    IN  CHOOSE k \in 0..n :
          /\ \A i \in 0..(k - 1) : StepSucceeds(i)
          /\ k < n => ~StepSucceeds(k)

C21_HashDeterministic ==
    \A i, j \in 1..Len(hashes) :
        hashes[i].data = hashes[j].data => hashes[i].tag = hashes[j].tag

====
